---- MODULE Spec2Model ----
(***************************************************************************)
(* Model of tf_quant_finance/experimental/american_option_pricing/         *)
(* exercise_boundary.py: the probability kernels _d_plus/_d_minus, the     *)
(* integral term evaluators boundary_numerator/boundary_denominator and    *)
(* the fixed-point loop of exercise_boundary.                              *)
(*                                                                         *)
(* Tensors of floats are modelled as sequences of values of a small        *)
(* floating format: a finite value is a fixed-point integer (Scale units   *)
(* per 1.0, magnitude at most MaxFin), and NaN, +Inf and -Inf are values   *)
(* of their own with the IEEE rules for them (x/0, 0/0, Inf-Inf, 0*Inf,    *)
(* comparisons with NaN).                                                  *)
(***************************************************************************)
EXTENDS Integers, Sequences, FiniteSets, TLC

\* The calls of exercise_boundary that are followed: call 0 solves a batch
\* of two options, call i (1, 2) solves option i of that batch alone.
Runs == {0, 1, 2}

VARIABLES
  nan_propagates,  \* whether the build's min/max kernels return NaN when an
                   \* operand is NaN (they may also return the other operand)
  inp,             \* per call: the arguments of exercise_boundary
  pc,              \* per call: "start", "loop", "done" or "error"
  converged,       \* per call: the loop variable converged
  current_boundary_points,  \* per call: the loop variable holding B
  iterations,      \* per call: how many times the loop body has run
  result,          \* per call: the spline parameters behind the returned callable
  last_body,       \* per call: what the latest run of the loop body read and computed
  iterates,        \* per call: the sample vectors B0, B1, ... so far
  probe            \* the latest direct call of a kernel or evaluator, with its result

vars == <<nan_propagates, inp, pc, converged, current_boundary_points,
          iterations, result, last_body, iterates, probe>>

\* ------------------------------------------------------------------------
\* The float format (dtype) and its arithmetic
\* ------------------------------------------------------------------------

\* Units per 1.0 of a finite value.
Scale == 1000

\* Largest finite magnitude (in units); a larger result overflows to +-Inf.
MaxFin == 1000000

Fin(v) == [c |-> "fin", v |-> v]
NaN == [c |-> "nan", v |-> 0]
PInf == [c |-> "inf", v |-> 1]
NInf == [c |-> "inf", v |-> -1]

Zero == Fin(0)
One == Fin(Scale)
Two == Fin(2 * Scale)
Half == Fin(Scale \div 2)

IsFin(x) == x.c = "fin"
IsNaN(x) == x.c = "nan"
IsInf(x) == x.c = "inf"
IsZero(x) == x.c = "fin" /\ x.v = 0

Abs(n) == IF n < 0 THEN -n ELSE n
Sgn(n) == IF n < 0 THEN -1 ELSE 1

\* Sign of a non-NaN value (zero counts as positive).
SignOf(x) == Sgn(x.v)
InfOf(s) == IF s < 0 THEN NInf ELSE PInf

\* n / d rounded to the nearest unit, for n >= 0 and d > 0.
RoundDiv(n, d) == (n + d \div 2) \div d

\* A finite result, overflowing to +-Inf beyond MaxFin.
Round(v) == IF v > MaxFin THEN PInf ELSE IF v < -MaxFin THEN NInf ELSE Fin(v)

FNeg(x) == IF IsNaN(x) THEN NaN ELSE [c |-> x.c, v |-> -x.v]

FAbs(x) == IF IsNaN(x) THEN NaN ELSE [c |-> x.c, v |-> Abs(x.v)]

FAdd(x, y) ==
  IF IsNaN(x) \/ IsNaN(y) THEN NaN
  ELSE IF IsInf(x) /\ IsInf(y) THEN (IF x.v = y.v THEN x ELSE NaN)
  ELSE IF IsInf(x) THEN x
  ELSE IF IsInf(y) THEN y
  ELSE Round(x.v + y.v)

FSub(x, y) == FAdd(x, FNeg(y))

\* |a| * |b| / Scale in units, rounded, for a, b >= 0 (no intermediate
\* exceeds MaxFin * Scale).
MulMag(a, b) == a * (b \div Scale) + RoundDiv(a * (b % Scale), Scale)

FMul(x, y) ==
  IF IsNaN(x) \/ IsNaN(y) THEN NaN
  ELSE IF IsInf(x) \/ IsInf(y)
    THEN (IF IsZero(x) \/ IsZero(y) THEN NaN ELSE InfOf(SignOf(x) * SignOf(y)))
  ELSE Round(Sgn(x.v) * Sgn(y.v) * MulMag(Abs(x.v), Abs(y.v)))

\* The plain division x / y: x/0 is +-Inf, 0/0 and Inf/Inf are NaN.
FDiv(x, y) ==
  IF IsNaN(x) \/ IsNaN(y) THEN NaN
  ELSE IF IsInf(x) THEN (IF IsInf(y) THEN NaN ELSE InfOf(SignOf(x) * SignOf(y)))
  ELSE IF IsInf(y) THEN Zero
  ELSE IF y.v = 0 THEN (IF x.v = 0 THEN NaN ELSE InfOf(Sgn(x.v)))
  ELSE Round(Sgn(x.v) * Sgn(y.v) * RoundDiv(Abs(x.v) * Scale, Abs(y.v)))

\* x <= y; false when either is NaN.
FLe(x, y) ==
  IF IsNaN(x) \/ IsNaN(y) THEN FALSE
  ELSE IF IsInf(x) THEN (x.v < 0 \/ (IsInf(y) /\ y.v > 0))
  ELSE IF IsInf(y) THEN y.v > 0
  ELSE x.v <= y.v

\* tf.math.divide_no_nan: 0 when the denominator is zero, whatever x is.
divide_no_nan(x, y) == IF IsZero(y) THEN Zero ELSE FDiv(x, y)

RECURSIVE ISqrtBetween(_, _, _)
\* The largest k in lo..hi with k * k <= n (lo * lo <= n is given).
ISqrtBetween(n, lo, hi) ==
  IF lo >= hi THEN lo
  ELSE LET mid == (lo + hi + 1) \div 2
       IN IF mid * mid <= n THEN ISqrtBetween(n, mid, hi)
          ELSE ISqrtBetween(n, lo, mid - 1)

\* tf.math.sqrt
FSqrt(x) ==
  IF IsNaN(x) THEN NaN
  ELSE IF IsInf(x) THEN (IF x.v > 0 THEN PInf ELSE NaN)
  ELSE IF x.v < 0 THEN NaN
  ELSE Fin(ISqrtBetween(x.v * Scale, 0, 31622))

\* ln 2 in units.
Ln2 == (693 * Scale) \div 1000

RECURSIVE LogMag(_, _)
\* ln(m / Scale) + k * ln 2 in units, for m > 0: the argument is brought
\* into [1, 2) and ln m = 2 (y + y^3/3 + y^5/5), y = (m - 1) / (m + 1).
LogMag(m, k) ==
  IF m >= 2 * Scale THEN LogMag(m \div 2, k + 1)
  ELSE IF m < Scale THEN LogMag(m * 2, k - 1)
  ELSE LET y == RoundDiv((m - Scale) * Scale, m + Scale)
           y2 == MulMag(y, y)
           y3 == MulMag(y2, y)
           y5 == MulMag(y3, y2)
       IN k * Ln2 + 2 * (y + y3 \div 3 + y5 \div 5)

\* tf.math.log
FLog(x) ==
  IF IsNaN(x) THEN NaN
  ELSE IF IsInf(x) THEN (IF x.v > 0 THEN PInf ELSE NaN)
  ELSE IF x.v < 0 THEN NaN
  ELSE IF x.v = 0 THEN NInf
  ELSE Fin(LogMag(x.v, 0))

RECURSIVE ExpMag(_)
\* exp(a / Scale) in units for 0 <= a: halved down to at most 0.5, then the
\* series 1 + a + a^2/2 + a^3/6 + a^4/24.
ExpMag(a) ==
  IF 2 * a > Scale
    THEN LET h == ExpMag(a \div 2)
             e == MulMag(h, h)
         IN IF a % 2 = 1 THEN e + RoundDiv(e, Scale) ELSE e
  ELSE LET a2 == MulMag(a, a)
           a3 == MulMag(a2, a)
           a4 == MulMag(a3, a)
       IN Scale + a + a2 \div 2 + a3 \div 6 + a4 \div 24

\* Above this argument (in units) exp overflows the format: ln(MaxFin/Scale).
ExpMax == 6907

\* tf.math.exp
FExp(x) ==
  IF IsNaN(x) THEN NaN
  ELSE IF IsInf(x) THEN (IF x.v > 0 THEN PInf ELSE Zero)
  ELSE IF x.v > ExpMax THEN PInf
  ELSE IF x.v < -ExpMax THEN Zero
  ELSE IF x.v >= 0 THEN Round(ExpMag(x.v))
  ELSE Fin(RoundDiv(Scale * Scale, ExpMag(-x.v)))

\* erf(a / Scale) in units for a >= 0 (Abramowitz-Stegun 7.1.27):
\* 1 - 1 / (1 + a1 x + a2 x^2 + a3 x^3 + a4 x^4)^4; 1 from x = 4 on.
ErfMag(a) ==
  IF a >= 4 * Scale THEN Scale
  ELSE LET a2 == MulMag(a, a)
           a3 == MulMag(a2, a)
           a4 == MulMag(a3, a)
           p == Scale + MulMag(278, a) + MulMag(230, a2) + MulMag(1, a3)
                  + MulMag(78, a4)
           inv == RoundDiv(Scale * Scale, p)
           inv2 == MulMag(inv, inv)
       IN Scale - MulMag(inv2, inv2)

\* tf.math.erf
FErf(x) ==
  IF IsNaN(x) THEN NaN
  ELSE IF IsInf(x) THEN Fin(SignOf(x) * Scale)
  ELSE Fin(Sgn(x.v) * ErfMag(Abs(x.v)))

\* A tensor with its elements computed (a sequence written out).
Tensor(xs) == xs \o <<>>

\* _SQRT_2
_SQRT_2 == Fin(ISqrtBetween(2 * Scale * Scale, 0, 2 * Scale))

\* The cdf with the halving applied to erf alone: erf(x / sqrt 2) / 2 + 1.
_standard_normal_cdf_misplaced_half(x) ==
  FAdd(FDiv(FErf(FDiv(x, _SQRT_2)), Two), One)

_standard_normal_cdf(x) == FDiv(FAdd(FErf(FDiv(x, _SQRT_2)), One), Two)

\* ------------------------------------------------------------------------
\* Probability kernels
\* ------------------------------------------------------------------------

\* _d_plus with the plain division in place of divide_no_nan.
_d_plus_plain_division(tau, z, r, q, sigma) ==
  FDiv(
    FAdd(FLog(z),
         FMul(FAdd(FSub(r, q), FMul(Half, FMul(sigma, sigma))), tau)),
    FMul(sigma, FSqrt(tau)))

_d_plus(tau, z, r, q, sigma) ==
  divide_no_nan(
    FAdd(FLog(z),
         FMul(FAdd(FSub(r, q), FMul(Half, FMul(sigma, sigma))), tau)),
    FMul(sigma, FSqrt(tau)))

_d_minus(tau, z, r, q, sigma) ==
  FSub(_d_plus(tau, z, r, q, sigma), FMul(sigma, FSqrt(tau)))

\* ------------------------------------------------------------------------
\* Collaborators: Gauss-Legendre quadrature and the interpolating spline
\* ------------------------------------------------------------------------

\* Roots and weights of the two-point Gauss-Legendre rule on [-1, 1].
QuadRoots == <<Fin(-((577 * Scale) \div 1000)), Fin((577 * Scale) \div 1000)>>
QuadWeights == <<One, One>>
QuadNodes == 1 .. Len(QuadRoots)

\* The quadrature nodes of [lower, upper].
gauss_grid(lower, upper) ==
  Tensor([n \in QuadNodes |->
     FDiv(FAdd(FAdd(FMul(FSub(upper, lower), QuadRoots[n]), upper), lower),
          Two)])

RECURSIVE SumTo(_, _)
SumTo(vals, n) == IF n = 0 THEN Zero ELSE FAdd(SumTo(vals, n - 1), vals[n])

\* The integral over [lower, upper] from the integrand's values at the nodes.
gauss_legendre(vals, lower, upper) ==
  SumTo([n \in QuadNodes |->
           FDiv(FMul(FMul(vals[n], FSub(upper, lower)), QuadWeights[n]), Two)],
        Len(QuadRoots))

\* Spline parameters of one batch: the knots and the values at them.
build_spline(x, y) == [x |-> x, y |-> y]

RECURSIVE Segment(_, _, _)
\* The last segment l <= n whose left knot is <= t (1 when there is none).
Segment(xs, t, n) ==
  IF n <= 1 THEN 1
  ELSE IF FLe(xs[n], t) THEN n
  ELSE Segment(xs, t, n - 1)

\* The interpolant of row i at t: through the knots, linear between them
\* (the natural cubic spline itself when the row has two knots).
interpolate(t, params, i) ==
  LET xs == params.x[i]
      ys == params.y[i]
      l == Segment(xs, t, Len(xs) - 1)
  IN FAdd(ys[l],
          FMul(FSub(ys[l + 1], ys[l]),
               FDiv(FSub(t, xs[l]), FSub(xs[l + 1], xs[l]))))

\* ------------------------------------------------------------------------
\* Tensor plumbing
\* ------------------------------------------------------------------------

\* tf.convert_to_tensor of a vector and of a matrix given in units.
convert_to_tensor(xs) == [i \in DOMAIN xs |-> Fin(xs[i])]
convert_grid(g) == [i \in DOMAIN g |-> convert_to_tensor(g[i])]

\* Broadcasting that hands the first option's element to every row.
At_first_row(p, i) == p[1]

\* Element i of a per-option tensor broadcast against the batch: a tensor of
\* length one gives its only element to every row.
At(p, i) == IF Len(p) = 1 THEN p[1] ELSE p[i]

\* Whether k, r and q broadcast against the rows of tau_grid in b_0.
shapes_broadcast(m, k, r, q) == {Len(k), Len(r), Len(q)} \subseteq {1, m}

\* tf.math.minimum
minimum(x, y) ==
  IF IsNaN(x) \/ IsNaN(y)
    THEN (IF nan_propagates THEN NaN ELSE IF IsNaN(x) THEN y ELSE x)
  ELSE IF FLe(x, y) THEN x ELSE y

\* The larger of two elements, as tf.math.reduce_max accumulates them.
maximum(x, y) ==
  IF IsNaN(x) \/ IsNaN(y)
    THEN (IF nan_propagates THEN NaN ELSE IF IsNaN(x) THEN y ELSE x)
  ELSE IF FLe(x, y) THEN y ELSE x

RECURSIVE MaxTo(_, _)
MaxTo(xs, n) == IF n = 1 THEN xs[1] ELSE maximum(MaxTo(xs, n - 1), xs[n])

\* tf.math.reduce_max over all elements of a matrix.
reduce_max(mat) == MaxTo([i \in DOMAIN mat |-> MaxTo(mat[i], Len(mat[i]))], Len(mat))

\* ------------------------------------------------------------------------
\* Boundary functions (the callables b)
\* ------------------------------------------------------------------------

\* The initial guess without the cap at 1: ones_like(tau) * k * (r / q).
b_0_uncapped(k, r, q, i) ==
  FMul(FMul(One, At(k, i)), FDiv(At(r, i), At(q, i)))

\* The initial guess of row i: ones_like(tau) * k * minimum(1, r / q).
b_0(k, r, q, i) ==
  FMul(FMul(One, At(k, i)), minimum(One, FDiv(At(r, i), At(q, i))))

b_0_fn(k, r, q) == [fn |-> "b_0", k |-> k, r |-> r, q |-> q]

\* current_exercise_boundary_fn / new_exercise_boundary_fn
spline_fn(params) == [fn |-> "spline", params |-> params]

\* b(t) for row i.
call(b, i, t) ==
  IF b.fn = "b_0" THEN b_0(b.k, b.r, b.q, i) ELSE interpolate(t, b.params, i)

\* ------------------------------------------------------------------------
\* Integral term evaluators
\* ------------------------------------------------------------------------

\* ratio in boundary_numerator's integrand.
numerator_ratio(b, i, tau, u) == FDiv(call(b, i, tau), call(b, i, u))

\* ratio in boundary_denominator's integrand.
denominator_ratio(b, i, tau, u) == FDiv(call(b, i, tau), call(b, i, u))

boundary_numerator(tau_grid, b, k, r, q, sigma) ==
  Tensor([i \in DOMAIN tau_grid |-> Tensor([j \in DOMAIN tau_grid[i] |->
     LET tau == tau_grid[i][j]
         r_i == At(r, i)
         q_i == At(q, i)
         s_i == At(sigma, i)
         term1 == _standard_normal_cdf(
                    _d_minus(tau, FDiv(call(b, i, tau), At(k, i)), r_i, q_i, s_i))
         u == gauss_grid(Zero, tau)
         func == Tensor([n \in QuadNodes |->
                    FMul(FExp(FMul(r_i, u[n])),
                         _standard_normal_cdf(
                           _d_minus(FSub(tau, u[n]),
                                    numerator_ratio(b, i, tau, u[n]),
                                    r_i, q_i, s_i)))])
         term2 == FMul(r_i, gauss_legendre(func, Zero, tau))
     IN FAdd(term1, term2)])])

boundary_denominator(tau_grid, b, k, r, q, sigma) ==
  Tensor([i \in DOMAIN tau_grid |-> Tensor([j \in DOMAIN tau_grid[i] |->
     LET tau == tau_grid[i][j]
         r_i == At(r, i)
         q_i == At(q, i)
         s_i == At(sigma, i)
         term1 == _standard_normal_cdf(
                    _d_plus(tau, FDiv(call(b, i, tau), At(k, i)), r_i, q_i, s_i))
         u == gauss_grid(Zero, tau)
         func == Tensor([n \in QuadNodes |->
                    FMul(FExp(FMul(q_i, u[n])),
                         _standard_normal_cdf(
                           _d_plus(FSub(tau, u[n]),
                                   denominator_ratio(b, i, tau, u[n]),
                                   r_i, q_i, s_i)))])
         term2 == FMul(q_i, gauss_legendre(func, Zero, tau))
     IN FAdd(term1, term2)])])

\* ------------------------------------------------------------------------
\* Boundary solver: exercise_boundary
\* ------------------------------------------------------------------------

\* epsilon: below the resolution of the format, so its smallest positive value.
epsilon == Fin(1)

\* tf.squeeze(b_0(tau_grid_exp), axis=-1): the vector the loop is entered with.
initial_boundary_points(tau_grid, k, r, q) ==
  Tensor([i \in DOMAIN tau_grid |->
            Tensor([j \in DOMAIN tau_grid[i] |-> b_0(k, r, q, i)])])

\* new_boundary_points of body
new_boundary_points(tau_grid, k, r, q, sigma, current) ==
  LET b == spline_fn(build_spline(tau_grid, current))
      numerator == boundary_numerator(tau_grid, b, k, r, q, sigma)
      denominator == boundary_denominator(tau_grid, b, k, r, q, sigma)
  IN Tensor([i \in DOMAIN tau_grid |-> Tensor([j \in DOMAIN tau_grid[i] |->
        divide_no_nan(
          FMul(FMul(At(k, i),
                    FExp(FMul(FNeg(FSub(At(r, i), At(q, i))), tau_grid[i][j]))),
               numerator[i][j]),
          denominator[i][j])])])

\* relative_error of body
relative_error(new, current) ==
  reduce_max([i \in DOMAIN new |-> [j \in DOMAIN new[i] |->
     FDiv(FAbs(FSub(new[i][j], current[i][j])),
          FAdd(FAbs(new[i][j]), epsilon))]])

\* converged with a strict comparison: relative_error < tolerance.
is_converged_strict(error, tolerance) ==
  FLe(error, tolerance) /\ error # tolerance

\* converged of body
is_converged(error, tolerance) == FLe(error, tolerance)

\* The integrand's ratio and its divisor b(u) at every quadrature node, as
\* the evaluators meet them in one run of body.
integrand_ratios(tau_grid, current) ==
  LET b == spline_fn(build_spline(tau_grid, current))
  IN [i \in DOMAIN tau_grid |-> [j \in DOMAIN tau_grid[i] |->
        LET u == gauss_grid(Zero, tau_grid[i][j])
        IN [n \in QuadNodes |->
              [b_u |-> call(b, i, u[n]),
               numerator |-> numerator_ratio(b, i, tau_grid[i][j], u[n]),
               denominator |-> denominator_ratio(b, i, tau_grid[i][j], u[n])]]]]

\* body(converged, current_boundary_points)
body(tau_grid, k, r, q, sigma, tolerance, current) ==
  LET new == new_boundary_points(tau_grid, k, r, q, sigma, current)
      error == relative_error(new, current)
  IN [converged |-> is_converged(error, tolerance),
      new_boundary_points |-> new,
      relative_error |-> error,
      input |-> current,
      ratios |-> integrand_ratios(tau_grid, current)]

\* The loop without maximum_iterations: cond alone decides.
while_loop_ignores_budget(conv, n, max_depth) == ~conv

\* tf.while_loop(cond, body, loop_vars, maximum_iterations=max_depth): whether
\* the body runs once more.
while_loop_continues(conv, n, max_depth) == ~conv /\ n < max_depth

\* A return that raises when the loop exited without convergence.
exercise_boundary_return_raising(tau_grid, conv, points) ==
  IF conv THEN [pc |-> "done", params |-> build_spline(tau_grid, points)]
  ELSE [pc |-> "error", params |-> [x |-> <<>>, y |-> <<>>]]

\* What exercise_boundary ends with once the loop has exited.
exercise_boundary_return(tau_grid, conv, points) ==
  [pc |-> "done", params |-> build_spline(tau_grid, points)]

NoSpline == [x |-> <<>>, y |-> <<>>]
NoBody == [converged |-> FALSE, new_boundary_points |-> <<>>,
           relative_error |-> Zero, input |-> <<>>, ratios |-> <<>>]
NoProbe == [fn |-> "none", args |-> <<>>, value |-> <<>>]

\* The calls are made one after the other.
Finished(run) == pc[run] \in {"done", "error"}
MayRun(run) == \A other \in Runs : other < run => Finished(other)

\* How a step moves the control of a call: its position and its count of
\* iterations. Every step of a call is one of these.
control == <<pc, iterations>>

SetupControl(run) ==
  /\ pc[run] = "start"
  /\ MayRun(run)
  /\ shapes_broadcast(Len(inp[run].tau_grid), inp[run].k, inp[run].r, inp[run].q)
  /\ pc' = [pc EXCEPT ![run] = "loop"]
  /\ UNCHANGED iterations

BodyControl(run) ==
  /\ pc[run] = "loop"
  /\ while_loop_continues(converged[run], iterations[run], inp[run].max_depth)
  /\ iterations' = [iterations EXCEPT ![run] = @ + 1]
  /\ UNCHANGED pc

FinalizeControl(run) ==
  /\ pc[run] = "loop"
  /\ ~while_loop_continues(converged[run], iterations[run], inp[run].max_depth)
  /\ pc' = [pc EXCEPT ![run] =
              exercise_boundary_return(convert_grid(inp[run].tau_grid),
                                       converged[run],
                                       current_boundary_points[run]).pc]
  /\ UNCHANGED iterations

\* The start of a call up to the loop: the conversions and b_0.
Setup(run) ==
  LET a == inp[run]
      tau_grid == convert_grid(a.tau_grid)
      k == convert_to_tensor(a.k)
      r == convert_to_tensor(a.r)
      q == convert_to_tensor(a.q)
      b0 == initial_boundary_points(tau_grid, k, r, q)
  IN /\ SetupControl(run)
     /\ converged' = [converged EXCEPT ![run] = FALSE]
     /\ current_boundary_points' = [current_boundary_points EXCEPT ![run] = b0]
     /\ iterates' = [iterates EXCEPT ![run] = <<b0>>]
     /\ UNCHANGED <<nan_propagates, inp, result, last_body, probe>>

\* b_0 raises when k, r or q does not broadcast against tau_grid.
SetupRaises(run) ==
  LET a == inp[run]
  IN /\ pc[run] = "start"
     /\ MayRun(run)
     /\ ~shapes_broadcast(Len(a.tau_grid), a.k, a.r, a.q)
     /\ pc' = [pc EXCEPT ![run] = "error"]
     /\ UNCHANGED <<nan_propagates, inp, converged, current_boundary_points,
                    iterations, result, last_body, iterates, probe>>

\* One iteration of the loop.
Body(run) ==
  LET a == inp[run]
      out == body(convert_grid(a.tau_grid), convert_to_tensor(a.k),
                  convert_to_tensor(a.r), convert_to_tensor(a.q),
                  convert_to_tensor(a.sigma), Fin(a.tolerance),
                  current_boundary_points[run])
  IN /\ BodyControl(run)
     /\ converged' = [converged EXCEPT ![run] = out.converged]
     /\ current_boundary_points' =
          [current_boundary_points EXCEPT ![run] = out.new_boundary_points]
     /\ last_body' = [last_body EXCEPT ![run] = out]
     /\ iterates' = [iterates EXCEPT ![run] = Append(@, out.new_boundary_points)]
     /\ UNCHANGED <<nan_propagates, inp, result, probe>>

\* The loop has exited: the final spline and the returned callable.
Finalize(run) ==
  LET a == inp[run]
      ret == exercise_boundary_return(convert_grid(a.tau_grid), converged[run],
                                      current_boundary_points[run])
  IN /\ FinalizeControl(run)
     /\ result' = [result EXCEPT ![run] = ret.params]
     /\ UNCHANGED <<nan_propagates, inp, converged, current_boundary_points,
                    last_body, iterates, probe>>

\* ------------------------------------------------------------------------
\* Inputs
\* ------------------------------------------------------------------------

\* Largest max_depth tried.
MaxDepth == 2

\* Options (strike, rate, dividend yield, volatility, in units): r = q,
\* q = 0 < r, r = q = 0, r = 0 < q, and 0 < r < q.
Options ==
  { [k |-> 100 * Scale, r |-> 50, q |-> 50, sigma |-> 200],
    [k |-> 100 * Scale, r |-> 100, q |-> 0, sigma |-> 300],
    [k |-> 200 * Scale, r |-> 0, q |-> 0, sigma |-> 200],
    [k |-> 150 * Scale, r |-> 0, q |-> 50, sigma |-> 200],
    [k |-> 50 * Scale, r |-> 50, q |-> 100, sigma |-> 500] }

\* Maturity grids of a batch of two options: ascending from 0.
TauGrids ==
  { << <<0, Scale>>, <<0, 2 * Scale>> >>,
    << <<0, Scale \div 2, Scale>>, <<0, Scale, 2 * Scale>> >> }

\* Tolerances, in units.
Tolerances == {0, 180, 500}

Batch(o1, o2, g, depth, tol) ==
  [tau_grid |-> g, k |-> <<o1.k, o2.k>>, r |-> <<o1.r, o2.r>>,
   q |-> <<o1.q, o2.q>>, sigma |-> <<o1.sigma, o2.sigma>>,
   max_depth |-> depth, tolerance |-> tol]

Batches ==
  { Batch(o1, o2, g, depth, tol) :
      o1 \in Options, o2 \in Options, g \in TauGrids, depth \in 0 .. MaxDepth,
      tol \in Tolerances }

\* Option i of a batch as a batch of its own.
Pick(p, i) == IF i <= Len(p) THEN p[i] ELSE p[1]
Row(a, i) ==
  [tau_grid |-> <<a.tau_grid[i]>>, k |-> <<Pick(a.k, i)>>, r |-> <<a.r[i]>>,
   q |-> <<a.q[i]>>, sigma |-> <<a.sigma[i]>>,
   max_depth |-> a.max_depth, tolerance |-> a.tolerance]

InitFrom(batches) ==
  /\ nan_propagates \in BOOLEAN
  /\ \E a \in batches : inp = [run \in Runs |-> IF run = 0 THEN a ELSE Row(a, run)]
  /\ pc = [run \in Runs |-> "start"]
  /\ converged = [run \in Runs |-> FALSE]
  /\ current_boundary_points = [run \in Runs |-> <<>>]
  /\ iterations = [run \in Runs |-> 0]
  /\ result = [run \in Runs |-> NoSpline]
  /\ last_body = [run \in Runs |-> NoBody]
  /\ iterates = [run \in Runs |-> <<>>]
  /\ probe = NoProbe

Init == InitFrom(Batches)

\* Arguments that are not valid: a grid row that is not ascending, a grid row
\* with a negative entry, and a strike vector that is shorter or longer than
\* the batch.
InvalidBatches ==
  UNION { LET a == Batch(o1, o2, << <<0, Scale>>, <<0, 2 * Scale>> >>, depth, tol)
          IN { [a EXCEPT !.tau_grid = << <<0, Scale>>, <<2 * Scale, Scale>> >>],
               [a EXCEPT !.tau_grid = << <<0, Scale>>, <<-Scale, Scale>> >>],
               [a EXCEPT !.k = <<o1.k>>],
               [a EXCEPT !.k = <<o1.k, o2.k, o2.k>>] } :
          o1 \in {o \in Options : o.q = o.r /\ o.r > 0},
          o2 \in {o \in Options : o.q # o.r /\ o.r > 0},
          depth \in 0 .. MaxDepth, tol \in Tolerances }

InitAny == InitFrom(Batches \cup InvalidBatches)

Next ==
  \E run \in Runs :
    \/ Setup(run)
    \/ Body(run)
    \/ Finalize(run)

Spec == Init /\ [][Next]_vars

\* The interpreter keeps running the calls: control moves on whenever a step
\* of some call is possible.
ControlStep ==
  \E run \in Runs :
    \/ SetupControl(run)
    \/ BodyControl(run)
    \/ FinalizeControl(run)

FairSpec == Spec /\ WF_control(ControlStep)

\* The same calls, on arguments that need not be valid.
NextAny ==
  \E run \in Runs :
    \/ Setup(run)
    \/ SetupRaises(run)
    \/ Body(run)
    \/ Finalize(run)

SpecAny == InitAny /\ [][NextAny]_vars

\* ------------------------------------------------------------------------
\* Direct calls of the kernels and of the evaluators
\* ------------------------------------------------------------------------

KernelTaus == {0, Scale \div 2, Scale}
KernelZs == {1, Scale \div 2, Scale, 2 * Scale}

NoArgs == [tau_grid |-> <<>>, k |-> <<>>, r |-> <<>>, q |-> <<>>,
           sigma |-> <<>>, max_depth |-> 0, tolerance |-> 0]

InitKernel ==
  /\ nan_propagates \in BOOLEAN
  /\ inp = [run \in Runs |-> NoArgs]
  /\ pc = [run \in Runs |-> "idle"]
  /\ converged = [run \in Runs |-> FALSE]
  /\ current_boundary_points = [run \in Runs |-> <<>>]
  /\ iterations = [run \in Runs |-> 0]
  /\ result = [run \in Runs |-> NoSpline]
  /\ last_body = [run \in Runs |-> NoBody]
  /\ iterates = [run \in Runs |-> <<>>]
  /\ probe = NoProbe

Solver == <<nan_propagates, inp, pc, converged, current_boundary_points,
            iterations, result, last_body, iterates>>

CallDPlus ==
  /\ probe.fn = "none"
  /\ \E tau \in KernelTaus, z \in KernelZs, o \in Options :
       probe' = [fn |-> "_d_plus", args |-> <<tau, z, o.r, o.q, o.sigma>>,
                 value |-> _d_plus(Fin(tau), Fin(z), Fin(o.r), Fin(o.q),
                                   Fin(o.sigma))]
  /\ UNCHANGED Solver

CallDMinus ==
  /\ probe.fn = "none"
  /\ \E tau \in KernelTaus, z \in KernelZs, o \in Options :
       probe' = [fn |-> "_d_minus", args |-> <<tau, z, o.r, o.q, o.sigma>>,
                 value |-> _d_minus(Fin(tau), Fin(z), Fin(o.r), Fin(o.q),
                                    Fin(o.sigma))]
  /\ UNCHANGED Solver

\* boundary_numerator on the initial guess b_0 of the batch.
CallNumerator ==
  /\ probe.fn = "none"
  /\ \E a \in Batches :
       LET k == convert_to_tensor(a.k)
           r == convert_to_tensor(a.r)
           q == convert_to_tensor(a.q)
       IN probe' = [fn |-> "boundary_numerator",
                    args |-> <<a.tau_grid, a.k, a.r, a.q, a.sigma>>,
                    value |-> boundary_numerator(convert_grid(a.tau_grid),
                                b_0_fn(k, r, q), k, r, q,
                                convert_to_tensor(a.sigma))]
  /\ UNCHANGED Solver

\* boundary_denominator on the initial guess b_0 of the batch.
CallDenominator ==
  /\ probe.fn = "none"
  /\ \E a \in Batches :
       LET k == convert_to_tensor(a.k)
           r == convert_to_tensor(a.r)
           q == convert_to_tensor(a.q)
       IN probe' = [fn |-> "boundary_denominator",
                    args |-> <<a.tau_grid, a.k, a.r, a.q, a.sigma>>,
                    value |-> boundary_denominator(convert_grid(a.tau_grid),
                                b_0_fn(k, r, q), k, r, q,
                                convert_to_tensor(a.sigma))]
  /\ UNCHANGED Solver

NextKernel == CallDPlus \/ CallDMinus \/ CallNumerator \/ CallDenominator

SpecKernel == InitKernel /\ [][NextKernel]_vars

\* ------------------------------------------------------------------------
\* Properties
\* ------------------------------------------------------------------------

Rows(run) == DOMAIN inp[run].tau_grid
Cols(run, i) == DOMAIN inp[run].tau_grid[i]
InLoopOrDone(run) == pc[run] \in {"loop", "done"}
BodyStep(run) == iterations'[run] = iterations[run] + 1

\* C1: the loop body of exercise_boundary runs at most max_depth times,
\* converged or not, and every call then reaches the finalize step and
\* returns.
C1_BoundedLoopThenFinalize ==
  /\ [][\A run \in Runs : iterations'[run] <= inp[run].max_depth]_vars
  /\ <>(\A run \in Runs : pc[run] = "done")

\* A call that has returned after using its whole budget of MaxDepth
\* iterations without converging.
C1_Witness ==
  /\ pc[0] = "done"
  /\ ~converged[0]
  /\ inp[0].max_depth = MaxDepth
  /\ iterations[0] = MaxDepth

\* C2: an iteration leaves the loop variable converged true exactly when its
\* relative_error is at most the tolerance; no iteration runs once converged;
\* and every iteration reads the vector the previous one computed (B0 for the
\* first), its own result becoming the current vector.
C2_ConvergedIffWithinTolerance ==
  [][\A run \in Runs :
       BodyStep(run) =>
         LET it == last_body'[run]
         IN /\ ~converged[run]
            /\ converged'[run] <=>
                 (it.relative_error.c = "fin"
                    /\ it.relative_error.v <= inp[run].tolerance)
            /\ it.input = current_boundary_points[run]
            /\ it.input = iterates[run][iterations[run] + 1]
            /\ current_boundary_points'[run] = it.new_boundary_points]_vars

\* A call whose first iteration did not converge and whose second one,
\* started from B1, did.
C2_Witness ==
  \E run \in Runs :
    /\ iterations[run] = 2
    /\ converged[run]
    /\ last_body[run].input = iterates[run][2]
    /\ iterates[run][2] # iterates[run][1]

\* C3: no call ends in an error, converged or not, and the returned callable
\* is the spline through the last sample vector of the loop: the result of
\* the last iteration that ran, or B0 when none ran.
C3_ReturnsLastIterate ==
  \A run \in Runs :
    /\ pc[run] # "error"
    /\ pc[run] = "done" =>
         /\ Len(iterates[run]) = iterations[run] + 1
         /\ result[run] = [x |-> convert_grid(inp[run].tau_grid),
                           y |-> iterates[run][iterations[run] + 1]]
         /\ iterations[run] > 0 =>
              result[run].y = last_body[run].new_boundary_points

\* A call that returned the result of its last iteration after the budget
\* ran out without convergence.
C3_Witness ==
  \E run \in Runs :
    /\ pc[run] = "done"
    /\ ~converged[run]
    /\ iterations[run] = inp[run].max_depth
    /\ iterations[run] > 0
    /\ result[run].y = last_body[run].new_boundary_points
    /\ result[run].y # iterates[run][1]

\* C4: the ratio b(tau)/b(u) in the integrands of boundary_numerator and
\* boundary_denominator is a safe divide: it is 0 wherever b(u) is 0 at a
\* quadrature node.
C4_RatioIsSafeDivide ==
  \A run \in Runs :
    iterations[run] > 0 =>
      \A i \in Rows(run) : \A j \in Cols(run, i) : \A n \in QuadNodes :
        LET at == last_body[run].ratios[i][j][n]
        IN IsZero(at.b_u) => IsZero(at.numerator) /\ IsZero(at.denominator)

\* The arguments the specification asks for: every per-option vector as long
\* as the batch, every grid row ascending and without a negative entry.
ValidArguments(a) ==
  /\ \A p \in {a.k, a.r, a.q, a.sigma} : Len(p) = Len(a.tau_grid)
  /\ \A i \in DOMAIN a.tau_grid :
       /\ \A j \in DOMAIN a.tau_grid[i] : a.tau_grid[i][j] >= 0
       /\ \A j \in 1 .. Len(a.tau_grid[i]) - 1 :
            a.tau_grid[i][j] < a.tau_grid[i][j + 1]

\* C5: on arguments that are not valid, exercise_boundary fails before the
\* loop: it runs no iteration and does not return.
C5_InvalidArgumentsFailFast ==
  \A run \in Runs :
    ~ValidArguments(inp[run]) => iterations[run] = 0 /\ pc[run] # "done"

\* C6 as stated: once the batch and option i alone are both solved, the final
\* sample vector of row i is the same in both.
C6_FinalRowsAgree ==
  \A i \in {1, 2} :
    pc[0] = "done" /\ pc[i] = "done" => result[0].y[i] = result[i].y[1]

MinOf(a, b) == IF a <= b THEN a ELSE b

\* C6, amended: for every n that both solves reach, the n-th sample vector of
\* row i is the same in the batch and alone; so the final vectors agree
\* whenever both solves ran the same number of iterations.
C6_IteratesOfRowsAgree ==
  \A i \in {1, 2} :
    /\ \A n \in 1 .. MinOf(Len(iterates[0]), Len(iterates[i])) :
         iterates[0][n][i] = iterates[i][n][1]
    /\ pc[0] = "done" /\ pc[i] = "done" /\ iterations[0] = iterations[i] =>
         result[0].y[i] = result[i].y[1]

\* The batch and its second option alone both solved, the batch with more
\* iterations than the option alone needed.
C6_Witness ==
  /\ pc[0] = "done"
  /\ pc[2] = "done"
  /\ iterations[2] >= 1
  /\ iterations[0] > iterations[2]
  /\ iterates[0][2][2] = iterates[2][2][1]
  /\ result[0].y[2] # result[2].y[1]

\* C7: for an option with q = 0 and tau_grid[i, 0] = 0, B[i, 0] = K[i] in the
\* initial guess and after every iteration.
C7_BoundaryAtZeroIsStrike ==
  \A run \in Runs :
    InLoopOrDone(run) =>
      \A i \in Rows(run) :
        inp[run].q[i] = 0 /\ inp[run].tau_grid[i][1] = 0 =>
          current_boundary_points[run][i][1] = Fin(inp[run].k[i])

\* C8: _d_plus and _d_minus are 0 at tau = 0 for finite z > 0 and sigma > 0.
C8_KernelsVanishAtZero ==
  probe.fn \in {"_d_plus", "_d_minus"}
    /\ probe.args[1] = 0 /\ probe.args[2] > 0 /\ probe.args[5] > 0
    => probe.value = Zero

\* _d_minus called at tau = 0 with z different from 1 and r different from q.
C8_Witness ==
  /\ probe.fn = "_d_minus"
  /\ probe.args[1] = 0
  /\ probe.args[2] = 2 * Scale
  /\ probe.args[3] > probe.args[4]
  /\ probe.value = Zero

\* C9: on the initial guess b_0, boundary_numerator and boundary_denominator
\* are exactly 0.5 at every grid point with tau = 0, for every option.
C9_HalfAtZero ==
  probe.fn \in {"boundary_numerator", "boundary_denominator"} =>
    \A i \in DOMAIN probe.args[1] : \A j \in DOMAIN probe.args[1][i] :
      probe.args[1][i][j] = 0 => probe.value[i][j] = Fin(Scale \div 2)

\* boundary_denominator called on a batch with positive rates: 0.5 at tau = 0
\* and another value at the later grid points.
C9_Witness ==
  /\ probe.fn = "boundary_denominator"
  /\ \A i \in DOMAIN probe.args[1] :
       /\ probe.args[3][i] > 0
       /\ probe.args[4][i] > 0
       /\ probe.args[1][i][1] = 0
       /\ probe.value[i][1] = Fin(Scale \div 2)
       /\ probe.value[i][2] # Fin(Scale \div 2)

\* K * min(1, r / q) for one option, in units: K when r >= q > 0 or q = 0 < r,
\* K r / q (to the rounding of the format) when r < q, and for r = q = 0,
\* where r / q is NaN, what the build's minimum makes of it.
IsGuessOf(b, k, r, q) ==
  IF q > 0 /\ r >= q THEN b = Fin(k)
  ELSE IF q > 0
    THEN b.c = "fin" /\ Abs(b.v * q - k * r) <= q * (k \div (2 * Scale) + 1)
  ELSE IF r > 0 THEN b = Fin(k)
  ELSE b = (IF nan_propagates THEN NaN ELSE Fin(k))

\* C10: the loop is entered with B0[i, j] = K[i] * min(1, r[i] / q[i]) at
\* every grid point j of every option i.
C10_InitialGuess ==
  \A run \in Runs :
    InLoopOrDone(run) =>
      /\ \A i \in Rows(run) : \A j \in Cols(run, i) :
           IsGuessOf(iterates[run][1][i][j],
                     inp[run].k[i], inp[run].r[i], inp[run].q[i])
      /\ iterations[run] = 0 => current_boundary_points[run] = iterates[run][1]

\* A batch at the loop's entry whose two options have different guesses, one
\* capped at K and one at K r / q below K.
C10_Witness ==
  /\ pc[0] = "loop"
  /\ iterations[0] = 0
  /\ inp[0].q[1] = 0 /\ inp[0].r[1] > 0
  /\ inp[0].r[2] > 0 /\ inp[0].r[2] < inp[0].q[2]
  /\ current_boundary_points[0][1][1] = Fin(inp[0].k[1])
  /\ current_boundary_points[0][2][2].v < inp[0].k[2]

====
